---- MODULE Spec2Model ----
(***************************************************************************)
(* A model of the MLS lending dashboard: the amount codec and transaction  *)
(* submitter of the config module, the lending hook, the wallet provider,  *)
(* the borrower request form and the pending-requests list.                *)
(***************************************************************************)
EXTENDS Integers, Sequences, FiniteSets, TLC

(***************************************************************************)
(* Bounds of the model.                                                    *)
(***************************************************************************)
\* decimal inputs of the codec are k / 10^6 for k in 0..MaxAtomic
MaxAtomic == 260
\* connect() / disconnect() calls of the wallet provider in flight at once
MaxCalls == 2
\* loan requests in the contract's table (total_requests)
NumReq == 3
\* wallet changes, file selections and button presses on the requests list in a run
MaxEvents == 4
\* invocations of the lending hook's actions and of submitTransaction
MaxTx == 2
\* signed amounts passed to the transaction actions are k / 10^6 for k in
\* -MaxSigned..MaxSigned
MaxSigned == 4
\* characters of a cached wallet state in local storage
MaxText == 4

(***************************************************************************)
(* Program constants.                                                      *)
(***************************************************************************)
\* the factor 1e6 of formatUsdc / parseUsdc ("USDC has 6 decimals")
UsdcScale == 1000000
\* 1e6 = UsdcOdd * 2^UsdcShift, the exact binary form of the factor
UsdcOdd == 15625
UsdcShift == 6
\* width of the significand of a JavaScript number (IEEE 754 binary64)
MantBits == 53
\* big integers are held as digits of LimbBits bits, base LimbBase = 2^LimbBits
LimbBits == 10
LimbBase == 1024

VARIABLES
    amount,         \* codec: the decimal amount typed in, in millionths (amount / 10^6)
    atomic,         \* codec: parseUsdc's result for it, or None
    display,        \* codec: formatUsdc's result for atomic, or None
    payload,        \* the payload a transaction action built last, or None
    connected,      \* wallet adapter: `connected`
    walletAccount,  \* wallet adapter: `account`, None or Some(address)
    accountObj,     \* WalletProviderInner: accountObj, None or Some(address of the stub)
    isConnecting,   \* WalletProviderInner: isConnecting
    calls,          \* connect() / disconnect() calls awaiting the adapter, oldest first
    callOutcome,    \* how the connect() / disconnect() call settled last ended
    cached,         \* localStorage 'aptos-wallet-state' before WalletProvider mounts
    storage,        \* localStorage 'aptos-wallet-state': None or Some(text)
    providerPc,     \* WalletProvider: "unmounted" or "mounted" (its effect has run)
    mountError,     \* what the mount effect let escape, or None
    txs,            \* the lending hook's and submitTransaction's invocations, oldest first
    formOpen,       \* BorrowerRequest is mounted
    formFiles,      \* BorrowerRequest: which of the two documents are selected
    formLoading,    \* BorrowerRequest: loading
    formError,      \* BorrowerRequest: error, None or Some(message)
    formSuccess,    \* BorrowerRequest: success, None or Some(hash)
    formPc,         \* handleRequest: "idle", or the await it is suspended at
    formTimer,      \* the close timer of a successful request is pending
    formLast,       \* the last handleRequest call: had an account, calls issued, outcome
    ledger,         \* the contract's loan_requests table: request id -> status code
    listMounted,    \* LoanRequestsList is mounted
    requests,       \* LoanRequestsList: requests, the list displayed
    listLoading,    \* LoanRequestsList: loading
    listError,      \* LoanRequestsList: error, None or Some(message)
    actionStatus,   \* LoanRequestsList: actionStatus, request id -> None or Some(status)
    approvalFiles,  \* LoanRequestsList: the request ids with an approval file selected
    fetches,        \* fetchRequests calls in flight, oldest first
    fetchOk,        \* how the fetchRequests call that ended last ended
    fetchSeq,       \* the number of fetchRequests calls that reached the ledger client
    acts,           \* handleApprove / handleReject calls in flight, oldest first
    lastSettled,    \* the call of them that settled last, and the ids then in flight
    listEvents,     \* wallet changes, file selections and button presses so far
    offerBook,      \* the contract's LenderRegistry: the lenders with an offer
    offersMounted,  \* LoanOffersList is mounted
    offers,         \* LoanOffersList: offers, the list displayed
    offersLoading,  \* LoanOffersList: loading
    offersError,    \* LoanOffersList: error, None or Some(message)
    offerFetches    \* fetchOffers calls in flight, oldest first

codecVars == <<amount, atomic, display, payload>>
walletVars == <<connected, walletAccount, accountObj, isConnecting, calls, callOutcome>>

storeVars == <<cached, storage, providerPc, mountError>>

\* what the actions of one component leave alone
formVars == <<formOpen, formFiles, formLoading, formError, formSuccess, formPc,
              formTimer, formLast>>

listState == <<ledger, listMounted, requests, listLoading, listError, actionStatus,
               approvalFiles, fetches, fetchOk, fetchSeq, acts, lastSettled>>
listVars == <<listState, listEvents>>
offerVars == <<offerBook, offersMounted, offers, offersLoading, offersError, offerFetches>>

notCodec == <<walletVars, storeVars, txs, formVars, listVars, offerVars>>
\* (a change of the adapter's account also runs the list's effect)
notWallet == <<codecVars, storeVars, txs, formVars, offerVars>>
notSubmit == <<codecVars, walletVars, storeVars, formVars, listVars, offerVars>>
notForm == <<codecVars, walletVars, storeVars, txs, listVars, offerVars>>
notList == <<codecVars, connected, accountObj, isConnecting, calls, callOutcome,
             storeVars, txs, formVars, offerVars>>
notStore == <<codecVars, walletVars, txs, formVars, listVars, offerVars>>
notOffers == <<codecVars, walletVars, storeVars, txs, formVars, listState>>

\* an absent value, and a present one
None == <<>>
Some(v) == <<v>>

(***************************************************************************)
(* JavaScript numbers (IEEE 754 binary64).  A positive number is [m, e]:   *)
(* its value is M * 2^e, where M, 2^52 <= M < 2^53, is the integer whose   *)
(* digits in base LimbBase, most significant first, are m.  Zero is        *)
(* [m |-> <<>>, e |-> 0].  Every operation rounds to nearest, ties to      *)
(* even.  The integers of the checker are narrower than M, hence the       *)
(* digits.                                                                 *)
(***************************************************************************)
Zero == [m |-> <<>>, e |-> 0]

RECURSIVE Strip(_)
\* a digit sequence without its leading zeros
Strip(l) == IF l # <<>> /\ l[1] = 0 THEN Strip(Tail(l)) ELSE l

RECURSIVE LimbsOf(_)
\* the digits of a natural number (0 -> <<>>)
LimbsOf(n) ==
    IF n = 0 THEN <<>> ELSE Append(LimbsOf(n \div LimbBase), n % LimbBase)

Front(l) == SubSeq(l, 1, Len(l) - 1)
Last(l) == l[Len(l)]

RECURSIVE IntOfLimbs(_)
\* the natural number a digit sequence stands for
IntOfLimbs(l) ==
    IF l = <<>> THEN 0 ELSE LimbBase * IntOfLimbs(Front(l)) + Last(l)

RECURSIVE MulCarry(_, _, _)
\* the digits of l * c + carry, for c < 2^20
MulCarry(l, c, carry) ==
    IF l = <<>> THEN LimbsOf(carry)
    ELSE LET t == Last(l) * c + carry
         IN  Append(MulCarry(Front(l), c, t \div LimbBase), t % LimbBase)

MulSmall(l, c) == Strip(MulCarry(l, c, 0))

\* l + 1
IncLimbs(l) == Strip(MulCarry(l, 1, 1))

RECURSIVE LongDiv(_, _)
\* quotient digits q and remainder r of l divided by d, for 0 < d < 2^21
LongDiv(l, d) ==
    IF l = <<>> THEN [q |-> <<>>, r |-> 0]
    ELSE LET prev == LongDiv(Front(l), d)
             cur  == prev.r * LimbBase + Last(l)
         IN  [q |-> Append(prev.q, cur \div d), r |-> cur % d]

\* the integer nearest to l / d, ties to the even one
RoundDiv(l, d) ==
    LET qr == LongDiv(l, d)
        q  == Strip(qr.q)
        odd == q # <<>> /\ Last(q) % 2 = 1
    IN  IF 2 * qr.r > d \/ (2 * qr.r = d /\ odd) THEN IncLimbs(q) ELSE q

\* the number of binary digits of a natural number below LimbBase
BitLenSmall(v) == CHOOSE b \in 0..LimbBits : v < 2^b /\ (b = 0 \/ v >= 2^(b - 1))

\* the number of binary digits of the integer with digits l
BitLen(l) ==
    LET s == Strip(l)
    IN  IF s = <<>> THEN 0 ELSE LimbBits * (Len(s) - 1) + BitLenSmall(s[1])

\* l with k zero digits appended: l * LimbBase^k
ShiftLimbs(l, k) == l \o [i \in 1..k |-> 0]

\* the number M * 2^e for an integer M of MantBits or MantBits + 1 binary
\* digits (the latter only as 2^MantBits, a significand rounded up)
Normal(M, e) ==
    IF BitLen(M) > MantBits
    THEN [m |-> Strip(LongDiv(M, 2).q), e |-> e + 1]
    ELSE [m |-> M, e |-> e]

\* the number nearest to n / d, for naturals n < 2^21 and 0 < d < 2^21 (the
\* `/` of two exactly representable numbers, and the value of the decimal
\* literal n/d when d is a power of ten)
NumDiv(n, d) ==
    IF n = 0 THEN Zero
    ELSE LET q0 == n \div d
             \* 2^p <= n / d < 2^(p + 1)
             p  == IF q0 > 0 THEN BitLen(LimbsOf(q0)) - 1
                   ELSE -(CHOOSE j \in 1..21 :
                            /\ 2^j >= (d + n - 1) \div n
                            /\ 2^(j - 1) < (d + n - 1) \div n)
             s  == (MantBits - 1) - p
             N  == ShiftLimbs(MulSmall(LimbsOf(n), 2^(s % LimbBits)), s \div LimbBits)
         IN  Normal(RoundDiv(N, d), -s)

\* the number nearest to x * 1e6
NumMulScale(x) ==
    IF x = Zero THEN Zero
    ELSE LET P == MulSmall(x.m, UsdcOdd)
             t == BitLen(P) - MantBits
         IN  Normal(RoundDiv(P, 2^t), x.e + UsdcShift + t)

\* Math.floor of a number >= 0 and below 2^31, as an integer
NumFloor(x) ==
    IF x = Zero \/ -x.e >= MantBits THEN 0
    ELSE IF x.e >= 0 THEN IntOfLimbs(x.m) * 2^x.e
    ELSE LET k == (-x.e) \div LimbBits
             b == (-x.e) % LimbBits
         IN  IntOfLimbs(LongDiv(SubSeq(x.m, 1, Len(x.m) - k), 2^b).q)

\* the number x >= 0 is an integer
IsWhole(x) ==
    IF x = Zero \/ x.e >= 0 THEN TRUE
    ELSE IF -x.e >= MantBits THEN FALSE
    ELSE LET k == (-x.e) \div LimbBits
             b == (-x.e) % LimbBits
         IN  /\ \A i \in (Len(x.m) - k + 1)..Len(x.m) : x.m[i] = 0
             /\ x.m[Len(x.m) - k] % (2^b) = 0

\* Math.ceil of a number >= 0 and below 2^31, as an integer
NumCeil(x) == IF IsWhole(x) THEN NumFloor(x) ELSE NumFloor(x) + 1

\* Math.floor(v * 1e6) for the number v = -x when neg, and v = x otherwise:
\* the product has the sign of v and the magnitude of x * 1e6 rounded
FloorTimesScale(neg, x) ==
    IF neg THEN -NumCeil(NumMulScale(x)) ELSE NumFloor(NumMulScale(x))

\* the JavaScript number a decimal amount of k millionths is read as
AmountNumber(k) == NumDiv(k, UsdcScale)

\* formatUsdc: Number(amount) / 1e6
formatUsdc(units) == NumDiv(units, UsdcScale)

\* parseUsdc: BigInt(Math.floor(amount * 1e6))
parseUsdc(x) == NumFloor(NumMulScale(x))

\* parseUsdc of a signed amount of k millionths: BigInt keeps the integer
parseUsdcSigned(k) ==
    IF k < 0 THEN FloorTimesScale(TRUE, AmountNumber(-k))
    ELSE FloorTimesScale(FALSE, AmountNumber(k))

(***************************************************************************)
(* The codec applied to an input.                                          *)
(***************************************************************************)
InitCodec ==
    /\ amount \in 0..MaxAtomic
    /\ atomic = None
    /\ display = None
    /\ payload = None

\* toAtomic: the amount converted for the ledger
ParseAmount ==
    /\ atomic = None
    /\ atomic' = Some(parseUsdc(AmountNumber(amount)))
    /\ UNCHANGED <<amount, display, payload, notCodec>>

\* fromAtomic: the ledger's units converted back for display
FormatAmount ==
    /\ atomic # None
    /\ display = None
    /\ display' = Some(formatUsdc(atomic[1]))
    /\ UNCHANGED <<amount, atomic, payload, notCodec>>

NextCodec == ParseAmount \/ FormatAmount

(***************************************************************************)
(* Values the components share.                                            *)
(***************************************************************************)
\* account addresses a wallet can hold
Addresses == {"0xA", "0xB"}
\* transaction hashes the ledger hands out
Hashes == {"0xh1"}
\* values a ledger client or wallet call rejects with: an error without a
\* message, and one with a message
Thrown == {[message |-> ""], [message |-> "Network Error"]}

\* s without its i-th element
Remove(s, i) == SubSeq(s, 1, i - 1) \o SubSeq(s, i + 1, Len(s))

\* the elements of a sequence
Range(s) == {s[i] : i \in 1..Len(s)}

(***************************************************************************)
(* LoanRequestsList: the lender's pending requests, with approve / reject. *)
(***************************************************************************)
\* the ids (table keys) of the loan requests
ReqIds == 0..(NumReq - 1)
\* the status code of a pending request (req.status === 0)
StatusPending == 0
\* the codes the contract gives an approved and a rejected request: the list
\* only tells them from pending
StatusApproved == StatusPending + 1
StatusRejected == StatusPending + 2

\* the lender of the offer request i was made against
LenderOf(i) == IF i % 2 = 0 THEN "0xA" ELSE "0xB"

\* the table item of key i as getTableItem returns it
TableItem(i) == [request_id |-> i, lender |-> LenderOf(i), status |-> ledger[i]]

FetchFailed == "Failed to fetch loan requests. Is the module deployed and initialized?"
UploadApproval == "Please upload an approval letter."

InitList ==
    /\ ledger = [i \in ReqIds |-> StatusPending]
    /\ listMounted = FALSE
    /\ requests = <<>>
    /\ listLoading = TRUE
    /\ listError = None
    /\ actionStatus = [i \in ReqIds |-> None]
    /\ approvalFiles = {}
    /\ fetches = <<>>
    /\ fetchOk = None
    /\ fetchSeq = 0
    /\ acts = <<>>
    /\ lastSettled = None
    /\ listEvents = 0

\* the filter of fetchRequests without the status test
PendingForAnyStatus(fetched, addr) ==
    SelectSeq(fetched, LAMBDA req : req.lender = addr)

\* fetchedRequests.filter(req => req.lender === account.address.toString()
\*                               && req.status === 0)
PendingFor(fetched, addr) ==
    SelectSeq(fetched, LAMBDA req : req.lender = addr /\ req.status = StatusPending)

\* fetchRequests up to its first await, for the account its closure holds:
\* nothing without an account; else loading, no error, and the read of
\* PlatformConfig is issued
FetchRequests(acct, origin) ==
    IF acct = None
    THEN UNCHANGED <<listLoading, listError, fetches, fetchSeq>>
    ELSE /\ listLoading' = TRUE
         /\ listError' = None
         /\ fetchSeq' = fetchSeq + 1
         /\ fetches' = Append(fetches, [account |-> acct[1], pc |-> "config",
                                        origin |-> origin, seq |-> fetchSeq + 1])

\* the effect on [fetchRequests]: runs when the adapter's account changes
ListAccountEffect(a) ==
    IF listMounted /\ a # walletAccount
    THEN /\ FetchRequests(a, "effect")
         /\ UNCHANGED <<ledger, listMounted, requests, actionStatus, approvalFiles,
                        fetchOk, acts, lastSettled>>
    ELSE UNCHANGED listState

\* the component mounts: its state is initial and the effect calls fetchRequests
ListMount ==
    /\ ~listMounted
    /\ listMounted' = TRUE
    /\ FetchRequests(walletAccount, "effect")
    /\ UNCHANGED <<ledger, requests, actionStatus, approvalFiles, fetchOk, acts,
                   lastSettled, listEvents, notList, walletAccount>>

\* getAccountResource(PlatformConfig) resolved: total_requests is read and the
\* getTableItem calls for the keys 0 .. total_requests - 1 are issued
FetchConfigResolves(k) ==
    /\ k \in 1..Len(fetches) /\ fetches[k].pc = "config"
    /\ fetches' = [fetches EXCEPT ![k].pc = "items"]
    /\ UNCHANGED <<ledger, listMounted, requests, listLoading, listError, actionStatus,
                   approvalFiles, fetchOk, fetchSeq, acts, lastSettled, listEvents, notList,
                   walletAccount>>

\* Promise.all of the table reads resolved, in key order: the list is set to
\* the filtered items, and the finally clears loading
FetchResolves(k) ==
    /\ k \in 1..Len(fetches) /\ fetches[k].pc = "items"
    /\ requests' = PendingFor([i \in 1..NumReq |-> TableItem(i - 1)], fetches[k].account)
    /\ listLoading' = FALSE
    /\ fetches' = Remove(fetches, k)
    /\ fetchOk' = Some(TRUE)
    /\ UNCHANGED <<ledger, listMounted, listError, actionStatus, approvalFiles, acts, fetchSeq,
                   lastSettled, listEvents, notList, walletAccount>>

\* the read of PlatformConfig or one of the table reads rejected: the catch
\* sets the error, the finally clears loading
FetchRejects(k) ==
    /\ k \in 1..Len(fetches)
    /\ listError' = Some(FetchFailed)
    /\ listLoading' = FALSE
    /\ fetches' = Remove(fetches, k)
    /\ fetchOk' = Some(FALSE)
    /\ UNCHANGED <<ledger, listMounted, requests, actionStatus, approvalFiles, acts, fetchSeq,
                   lastSettled, listEvents, notList, walletAccount>>

\* the list is rendered with the row of request r in it
RowShown(r) ==
    /\ listMounted /\ ~listLoading /\ listError = None
    /\ \E i \in 1..Len(requests) : requests[i].request_id = r

\* buttons that are never disabled
ButtonsEnabledAlways(r) == TRUE

\* the Approve and Reject buttons of the row are not disabled
ButtonsEnabled(r) ==
    IF actionStatus[r] = None THEN TRUE ELSE ~actionStatus[r][1].loading

\* an approval file is chosen for the row, or the chosen one removed
SelectApprovalFile(r, chosen) ==
    /\ listEvents < MaxEvents
    /\ listEvents' = listEvents + 1
    /\ RowShown(r)
    /\ approvalFiles' = IF chosen THEN approvalFiles \cup {r} ELSE approvalFiles \ {r}
    /\ approvalFiles' # approvalFiles
    /\ UNCHANGED <<ledger, listMounted, requests, listLoading, listError, actionStatus,
                   fetches, fetchOk, fetchSeq, acts, lastSettled, notList, walletAccount>>

\* setActionStatus with an object that holds the one key only
SetActionStatusOnly(prev, r, st) == [q \in ReqIds |-> IF q = r THEN Some(st) ELSE None]

\* setActionStatus(prev => ({ ...prev, [requestId]: st }))
SetActionStatus(prev, r, st) == [prev EXCEPT ![r] = Some(st)]

\* the reason of a failed action, with no fallback for an empty message
ActionReasonRaw(e) == e.message

\* e.message || 'An error occurred.'
ActionReason(e) == IF e.message = "" THEN "An error occurred." ELSE e.message

\* handleApprove(r), from the row's Approve button, up to its first await
HandleApprove(r) ==
    /\ listEvents < MaxEvents
    /\ listEvents' = listEvents + 1
    /\ RowShown(r) /\ ButtonsEnabled(r)
    /\ IF walletAccount = None
       THEN UNCHANGED <<actionStatus, acts>>
       ELSE IF r \notin approvalFiles
       THEN /\ actionStatus' = SetActionStatus(actionStatus, r,
                                   [loading |-> FALSE, error |-> Some(UploadApproval)])
            /\ UNCHANGED acts
       ELSE /\ actionStatus' = SetActionStatus(actionStatus, r,
                                   [loading |-> TRUE, error |-> None])
            /\ acts' = Append(acts, [rid |-> r, kind |-> "approve", pc |-> "signing",
                                     account |-> walletAccount])
    /\ UNCHANGED <<ledger, listMounted, requests, listLoading, listError, approvalFiles,
                   fetches, fetchOk, fetchSeq, lastSettled, notList, walletAccount>>

\* handleReject(r), from the row's Reject button, up to its first await
HandleReject(r) ==
    /\ listEvents < MaxEvents
    /\ listEvents' = listEvents + 1
    /\ RowShown(r) /\ ButtonsEnabled(r)
    /\ IF walletAccount = None
       THEN UNCHANGED <<actionStatus, acts>>
       ELSE /\ actionStatus' = SetActionStatus(actionStatus, r,
                                   [loading |-> TRUE, error |-> None])
            /\ acts' = Append(acts, [rid |-> r, kind |-> "reject", pc |-> "signing",
                                     account |-> walletAccount])
    /\ UNCHANGED <<ledger, listMounted, requests, listLoading, listError, approvalFiles,
                   fetches, fetchOk, fetchSeq, lastSettled, notList, walletAccount>>

\* the record of call k settling: its request id, whether it failed, and the
\* request ids of the calls still in flight beside it
Settled(k, failed) ==
    Some([rid |-> acts[k].rid, failed |-> failed,
          others |-> {acts[j].rid : j \in (1..Len(acts)) \ {k}}])

\* signAndSubmitTransaction resolved, and fetchRequests is called at once
ActSignResolvesRefresh(k) ==
    /\ k \in 1..Len(acts) /\ acts[k].pc = "signing"
    /\ acts' = [acts EXCEPT ![k].pc = "waiting"]
    /\ FetchRequests(acts[k].account, "action")
    /\ UNCHANGED <<ledger, listMounted, requests, actionStatus, approvalFiles, fetchOk,
                   lastSettled, listEvents, notList, walletAccount>>

\* signAndSubmitTransaction resolved with a hash: waitForTransaction is called
ActSignResolves(k) ==
    /\ k \in 1..Len(acts) /\ acts[k].pc = "signing"
    /\ acts' = [acts EXCEPT ![k].pc = "waiting"]
    /\ UNCHANGED <<ledger, listMounted, requests, listLoading, listError, actionStatus,
                   approvalFiles, fetches, fetchOk, fetchSeq, lastSettled, listEvents, notList,
                   walletAccount>>

\* the ledger commits the transaction: the pending request is approved or
\* rejected
TxCommits(k) ==
    /\ k \in 1..Len(acts) /\ acts[k].pc = "waiting"
    /\ ledger[acts[k].rid] = StatusPending
    /\ ledger' = [ledger EXCEPT ![acts[k].rid] =
                     IF acts[k].kind = "approve" THEN StatusApproved ELSE StatusRejected]
    /\ acts' = [acts EXCEPT ![k].pc = "committed"]
    /\ UNCHANGED <<listMounted, requests, listLoading, listError, actionStatus,
                   approvalFiles, fetches, fetchOk, fetchSeq, lastSettled, listEvents, notList,
                   walletAccount>>

\* waitForTransaction resolved: the row's status is cleared and the list is
\* refreshed with the fetchRequests of the handler's closure
ActWaitResolves(k) ==
    /\ k \in 1..Len(acts) /\ acts[k].pc = "committed"
    /\ actionStatus' = SetActionStatus(actionStatus, acts[k].rid,
                           [loading |-> FALSE, error |-> None])
    /\ FetchRequests(acts[k].account, "action")
    /\ acts' = Remove(acts, k)
    /\ lastSettled' = Settled(k, FALSE)
    /\ UNCHANGED <<ledger, listMounted, requests, approvalFiles, fetchOk, listEvents,
                   notList, walletAccount>>

\* signAndSubmitTransaction or waitForTransaction rejected (the wallet
\* declined, the transaction aborted, the wait timed out): the row's status
\* holds the reason
ActRejects(k) ==
    /\ k \in 1..Len(acts)
    /\ \E e \in Thrown :
          actionStatus' = SetActionStatus(actionStatus, acts[k].rid,
                              [loading |-> FALSE, error |-> Some(ActionReason(e))])
    /\ acts' = Remove(acts, k)
    /\ lastSettled' = Settled(k, TRUE)
    /\ UNCHANGED <<ledger, listMounted, requests, listLoading, listError, approvalFiles,
                   fetches, fetchOk, fetchSeq, listEvents, notList, walletAccount>>

(***************************************************************************)
(* WalletProviderInner: the session state over the wallet adapter.         *)
(***************************************************************************)
\* wallet names connect() is called with
WalletNames == {"Petra"}

InitWallet ==
    /\ connected = FALSE
    /\ walletAccount = None
    /\ accountObj = None
    /\ isConnecting = FALSE
    /\ calls = <<>>
    /\ callOutcome = None

\* initAccount without its else branch: the object is kept when the adapter
\* is not connected
initAccountKept(c, a) == IF c /\ a # None THEN a ELSE accountObj

\* initAccount: the stub account object for the adapter's state, or null
initAccount(c, a) == IF c /\ a # None THEN a ELSE None

\* isConnecting after the two effects ran for the adapter's state: both
\* leave it false when connected
EffectIsConnecting(c, isc) == IF c THEN FALSE ELSE isc

\* the adapter's state becomes (c, a), the provider renders and its effects run
AdapterUpdate(c, a, isc) ==
    /\ connected' = c
    /\ walletAccount' = a
    /\ accountObj' = initAccount(c, a)
    /\ isConnecting' = EffectIsConnecting(c, isc)
    /\ ListAccountEffect(a)

\* connect(walletName) up to its await: setIsConnecting(true); connectWallet(name)
Connect(w) ==
    /\ Len(calls) < MaxCalls
    /\ isConnecting' = TRUE
    /\ calls' = Append(calls, [op |-> "connect", wallet |-> w])
    /\ UNCHANGED <<connected, walletAccount, accountObj, callOutcome, notWallet, listVars>>

\* disconnect() up to its await: setIsConnecting(true); disconnectWallet()
Disconnect ==
    /\ Len(calls) < MaxCalls
    /\ isConnecting' = TRUE
    /\ calls' = Append(calls, [op |-> "disconnect", wallet |-> None])
    /\ UNCHANGED <<connected, walletAccount, accountObj, callOutcome, notWallet, listVars>>

\* connectWallet resolved: the adapter is connected with an account of the
\* wallet; connect() resumes and its finally clears isConnecting
ConnectResolves(i) ==
    /\ i \in 1..Len(calls) /\ calls[i].op = "connect"
    /\ \E a \in Addresses : AdapterUpdate(TRUE, Some(a), FALSE)
    /\ calls' = Remove(calls, i)
    /\ callOutcome' = Some("resolved")
    /\ UNCHANGED <<notWallet, listEvents>>

\* connectWallet rejected: connect() logs, rethrows, and its finally clears
\* isConnecting
ConnectRejects(i) ==
    /\ i \in 1..Len(calls) /\ calls[i].op = "connect"
    /\ isConnecting' = FALSE
    /\ calls' = Remove(calls, i)
    /\ callOutcome' = Some("rejected")
    /\ UNCHANGED <<connected, walletAccount, accountObj, notWallet, listVars>>

\* disconnectWallet resolved: the adapter is disconnected; disconnect() resumes
\* with setAccountObj(null) and its finally clears isConnecting
DisconnectResolves(i) ==
    /\ i \in 1..Len(calls) /\ calls[i].op = "disconnect"
    /\ AdapterUpdate(FALSE, None, FALSE)
    /\ calls' = Remove(calls, i)
    /\ callOutcome' = Some("resolved")
    /\ UNCHANGED <<notWallet, listEvents>>

\* disconnectWallet rejected: disconnect() logs, rethrows, and its finally
\* clears isConnecting
DisconnectRejects(i) ==
    /\ i \in 1..Len(calls) /\ calls[i].op = "disconnect"
    /\ isConnecting' = FALSE
    /\ calls' = Remove(calls, i)
    /\ callOutcome' = Some("rejected")
    /\ UNCHANGED <<connected, walletAccount, accountObj, notWallet, listVars>>

\* the adapter's state changes to another account, or to none
WalletChange ==
    \/ \E a \in Addresses :
         /\ <<connected, walletAccount>> # <<TRUE, Some(a)>>
         /\ AdapterUpdate(TRUE, Some(a), isConnecting)
    \/ /\ connected
       /\ AdapterUpdate(FALSE, None, isConnecting)

\* the wallet itself switches its account or drops the connection: the
\* adapter's state changes and the provider's effects run
WalletEvent ==
    /\ WalletChange
    /\ UNCHANGED <<calls, callOutcome, notWallet, listEvents>>

\* the same while the requests list is on screen
ListWalletEvent ==
    /\ listEvents < MaxEvents
    /\ listEvents' = listEvents + 1
    /\ WalletChange
    /\ UNCHANGED <<calls, callOutcome, notWallet>>

\* calls in flight at once: each needs an event, the first fetch only the mount
MaxInFlight == MaxEvents + 1

NextList ==
    \/ ListMount
    \/ \E k \in 1..MaxInFlight : FetchConfigResolves(k)
    \/ \E k \in 1..MaxInFlight : FetchResolves(k)
    \/ \E k \in 1..MaxInFlight : FetchRejects(k)
    \/ \E r \in ReqIds, chosen \in BOOLEAN : SelectApprovalFile(r, chosen)
    \/ \E r \in ReqIds : HandleApprove(r)
    \/ \E r \in ReqIds : HandleReject(r)
    \/ \E k \in 1..MaxInFlight : ActSignResolves(k)
    \/ \E k \in 1..MaxInFlight : TxCommits(k)
    \/ \E k \in 1..MaxInFlight : ActWaitResolves(k)
    \/ \E k \in 1..MaxInFlight : ActRejects(k)
    \/ ListWalletEvent

NextWallet ==
    \/ \E w \in WalletNames : Connect(w)
    \/ Disconnect
    \/ \E i \in 1..MaxCalls : ConnectResolves(i)
    \/ \E i \in 1..MaxCalls : ConnectRejects(i)
    \/ \E i \in 1..MaxCalls : DisconnectResolves(i)
    \/ \E i \in 1..MaxCalls : DisconnectRejects(i)
    \/ WalletEvent

(***************************************************************************)
(* WalletProvider: the check of the cached wallet state at mount.  A text  *)
(* is a sequence of characters.                                            *)
(***************************************************************************)
\* the characters of the texts: a digit and the two braces
TextChars == {"1", "{", "}"}

\* the texts of at most n characters
TextsUpTo(n) == UNION {[1..k -> TextChars] : k \in 0..n}

\* JSON.parse(t) returns: over these characters a JSON text is a number, one
\* or more digits 1, or the empty object; anything else, the empty text
\* included, makes it throw a SyntaxError
JsonParses(t) ==
    \/ t # <<>> /\ \A i \in 1..Len(t) : t[i] = "1"
    \/ t = <<"{", "}">>

\* the effect's try block throws for the item getItem returned: the parse is
\* made of an item that is truthy (not null, not the empty string)
MountDiscards(item) ==
    IF item = None \/ item[1] = <<>> THEN FALSE ELSE ~JsonParses(item[1])

InitStore ==
    /\ cached = None
    /\ storage = None
    /\ providerPc = "unmounted"
    /\ mountError = None

\* WalletProvider mounts and its effect runs: the catch removes the item and
\* lets nothing escape
ProviderMount ==
    /\ providerPc = "unmounted"
    /\ providerPc' = "mounted"
    /\ storage' = IF MountDiscards(storage) THEN None ELSE storage
    /\ mountError' = None
    /\ UNCHANGED <<cached, notStore>>

\* the page is left, and the storage outlives it
ProviderUnmount ==
    /\ providerPc = "mounted"
    /\ providerPc' = "unmounted"
    /\ cached' = storage
    /\ UNCHANGED <<storage, mountError, notStore>>

NextStore == ProviderMount \/ ProviderUnmount

(***************************************************************************)
(* submitTransaction and the transaction actions of useLendingContract.    *)
(* One record of txs is one invocation: the promise the caller holds, the  *)
(* stage submitTransaction has completed, the calls it has issued to the   *)
(* ledger client (net), the stages whose await resolved (ok), the hash     *)
(* submit returned, the value a call of it threw or rejected with, and the *)
(* result it returned.                                                     *)
(***************************************************************************)
\* the entry functions the hook's actions name, in the order of the hook:
\* createLoanOffer, cancelLoanOffer, requestLoan, approveLoanRequest, repayLoan
HookActions == {"create_offer", "cancel_offer", "request_loan", "approve_loan", "repay_loan"}

\* the message of ensureConnected's error
ConnectFirst == "Please connect your wallet first"
\* the reason submitTransaction falls back to
TransactionFailed == "Transaction failed"
\* what reading sender.accountAddress of a null sender throws
NullSender == [message |-> "Cannot read properties of null"]
\* what signing with the provider's stub account throws
StubCannotSign == [message |-> "signer.signTransactionWithAuthenticator is not a function"]
\* what waitForTransaction rejects with when its wait times out
WaitTimeout == [message |-> "Transaction timed out"]

NoCalls == [build |-> 0, sign |-> 0, submit |-> 0, wait |-> 0]

\* an invocation before its first statement
NewTx(fn, sender, had) ==
    [fn |-> fn, sender |-> sender, hadIdentity |-> had, promise |-> "pending",
     error |-> None, stage |-> "none", net |-> NoCalls, ok |-> {},
     hash |-> None, thrown |-> None, result |-> None]

\* ensureConnected with the check left out
ensureConnectedUnchecked(c, obj) == [throws |-> FALSE, account |-> obj]

\* ensureConnected: throws unless connected with an account, else returns it
ensureConnected(c, obj) ==
    IF ~c \/ obj = None
    THEN [throws |-> TRUE, account |-> None]
    ELSE [throws |-> FALSE, account |-> obj]

\* the reason of a failure, with no fallback for an empty message
FailureReasonRaw(e) == e.message

\* error.message || 'Transaction failed'
FailureReason(e) == IF e.message = "" THEN TransactionFailed ELSE e.message

\* the catch block resubmitting after a failed submit
CatchRetry(tx, e) ==
    IF tx.stage = "signed" /\ tx.net.submit < 2
    THEN [tx EXCEPT !.net.submit = @ + 1]
    ELSE [tx EXCEPT !.stage = "failed", !.promise = "resolved",
                    !.result = Some([success |-> FALSE, error |-> FailureReason(e)])]

\* the catch block: log, and return the failure result
Catch(tx, e) ==
    [tx EXCEPT !.stage = "failed", !.promise = "resolved",
               !.result = Some([success |-> FALSE, error |-> FailureReason(e)])]

\* submitTransaction up to its first await: the try block reads
\* sender.accountAddress and calls build.simple
SubmitBegin(tx) ==
    IF tx.sender = None THEN [Catch(tx, NullSender) EXCEPT !.thrown = Some(NullSender)]
    ELSE [tx EXCEPT !.stage = "start", !.net.build = 1]

\* build resolved and the submit call made without signing
AfterBuildUnsigned(tx) ==
    [tx EXCEPT !.stage = "signed", !.ok = @ \cup {"build"}, !.net.submit = 1]

\* build resolved: sign is called with the sender as signer
AfterBuild(tx) ==
    [tx EXCEPT !.stage = "built", !.ok = @ \cup {"build"}, !.net.sign = 1]

\* sign resolved: submit.simple is called
AfterSign(tx) ==
    [tx EXCEPT !.stage = "signed", !.ok = @ \cup {"sign"}, !.net.submit = 1]

\* submit resolved with a pending transaction: waitForTransaction is called
AfterSubmit(tx, h) ==
    [tx EXCEPT !.stage = "submitted", !.ok = @ \cup {"submit"}, !.hash = Some(h),
               !.net.wait = 1]

\* the two outcomes a result of submitTransaction tells apart
Outcome(r) == IF r.success THEN "confirmed" ELSE "failed"

\* the wait resolved: the success result is returned
AfterWait(tx) ==
    [tx EXCEPT !.stage = "confirmed", !.ok = @ \cup {"wait"}, !.promise = "resolved",
               !.result = Some([success |-> TRUE, hash |-> tx.hash[1]])]

InitSubmit == txs = <<>>

\* one of createLoanOffer, cancelLoanOffer, requestLoan, approveLoanRequest,
\* repayLoan, up to its first await: ensureConnected, the payload, and
\* submitTransaction with the provider's account
HookCall(fn) ==
    /\ Len(txs) < MaxTx
    /\ LET chk == ensureConnected(connected, accountObj)
           had == connected /\ accountObj # None
           sender == IF chk.account = None THEN None
                     ELSE Some([kind |-> "stub", address |-> chk.account[1]])
       IN  txs' = Append(txs,
                 IF chk.throws
                 THEN [NewTx(fn, None, had) EXCEPT !.promise = "rejected",
                                                   !.error = Some(ConnectFirst)]
                 ELSE SubmitBegin(NewTx(fn, sender, had)))

\* the same, as a step of the program
HookAction(fn) == HookCall(fn) /\ UNCHANGED notSubmit

\* the hook's actions that take an amount
AmountActions == {"create_offer", "request_loan", "repay_loan"}

\* createLoanOffer, requestLoan or repayLoan with the amount: after
\* ensureConnected the amount goes through parseUsdc into the payload of
\* createEntryFunctionPayload, which submitTransaction is called with
AmountAction(fn) ==
    /\ HookCall(fn)
    /\ payload' = IF ensureConnected(connected, accountObj).throws THEN payload
                  ELSE Some([fn |-> fn, amount |-> parseUsdcSigned(amount)])
    /\ UNCHANGED <<amount, atomic, display, walletVars, storeVars, formVars, listVars,
                   offerVars>>

\* submitTransaction called with an account that holds a key
DirectSubmit(fn, a) ==
    /\ Len(txs) < MaxTx
    /\ txs' = Append(txs, SubmitBegin(NewTx(fn, Some([kind |-> "key", address |-> a]), TRUE)))
    /\ UNCHANGED notSubmit

\* await aptos.transaction.build.simple resolved
BuildResolves(i) ==
    /\ i \in 1..Len(txs) /\ txs[i].stage = "start"
    /\ txs' = [txs EXCEPT ![i] = AfterBuild(@)]
    /\ UNCHANGED notSubmit

\* a signer that signs whatever it is
HoldsKeyAlways(sender) == TRUE

\* the signer can sign: an Account with its key can; the provider's stub is
\* an object with the address and a signTransaction that throws
HoldsKey(sender) == sender.kind = "key"

\* aptos.transaction.sign returned an authenticator: only an account with a
\* key signs
SignResolves(i) ==
    /\ i \in 1..Len(txs) /\ txs[i].stage = "built"
    /\ HoldsKey(txs[i].sender[1])
    /\ txs' = [txs EXCEPT ![i] = AfterSign(@)]
    /\ UNCHANGED notSubmit

\* aptos.transaction.sign threw for the provider's stub, which has no key
SignThrows(i) ==
    /\ i \in 1..Len(txs) /\ txs[i].stage = "built"
    /\ ~HoldsKey(txs[i].sender[1])
    /\ txs' = [txs EXCEPT ![i] = [Catch(@, StubCannotSign) EXCEPT !.thrown = Some(StubCannotSign)]]
    /\ UNCHANGED notSubmit

\* await aptos.transaction.submit.simple resolved with the pending transaction
SubmitResolves(i) ==
    /\ i \in 1..Len(txs) /\ txs[i].stage = "signed"
    /\ \E h \in Hashes : txs' = [txs EXCEPT ![i] = AfterSubmit(@, h)]
    /\ UNCHANGED notSubmit

\* await aptos.waitForTransaction resolved: the transaction is committed
WaitResolves(i) ==
    /\ i \in 1..Len(txs) /\ txs[i].stage = "submitted"
    /\ txs' = [txs EXCEPT ![i] = AfterWait(@)]
    /\ UNCHANGED notSubmit

\* await aptos.waitForTransaction rejected because its wait timed out
WaitTimesOut(i) ==
    /\ i \in 1..Len(txs) /\ txs[i].stage = "submitted"
    /\ txs' = [txs EXCEPT ![i] = [Catch(@, WaitTimeout) EXCEPT !.thrown = Some(WaitTimeout)]]
    /\ UNCHANGED notSubmit

\* a ledger client call (build, submit or wait) rejected
StageRejects(i) ==
    /\ i \in 1..Len(txs) /\ txs[i].stage \in {"start", "signed", "submitted"}
    /\ \E e \in Thrown : txs' = [txs EXCEPT ![i] = [Catch(@, e) EXCEPT !.thrown = Some(e)]]
    /\ UNCHANGED notSubmit

(***************************************************************************)
(* BorrowerRequest: the loan request form of one offer.                    *)
(***************************************************************************)
FormConnectFirst == "Please connect your wallet first."
FormUploadBoth == "Please upload both borrower and collateral documents."
AnErrorOccurred == "An error occurred."

\* the state of a freshly mounted form
FormMounted ==
    /\ formFiles' = {}
    /\ formLoading' = FALSE
    /\ formError' = None
    /\ formSuccess' = None

InitForm ==
    /\ formOpen = FALSE
    /\ formFiles = {}
    /\ formLoading = FALSE
    /\ formError = None
    /\ formSuccess = None
    /\ formPc = "idle"
    /\ formTimer = FALSE
    /\ formLast = None

\* handleRequestClick of the offers list: the form of the offer is mounted
FormOpenCall ==
    /\ ~formOpen /\ formPc = "idle" /\ ~formTimer
    /\ formOpen' = TRUE
    /\ FormMounted
    /\ formLast' = None
    /\ UNCHANGED <<formPc, formTimer>>

\* the same, as a step of the program
FormOpen == FormOpenCall /\ UNCHANGED notForm

\* Cancel, or handleCloseRequest: the form is unmounted
FormCloseCall ==
    /\ formOpen
    /\ formOpen' = FALSE
    /\ UNCHANGED <<formFiles, formLoading, formError, formSuccess, formPc,
                   formTimer, formLast>>

\* the same, as a step of the program
FormClose == FormCloseCall /\ UNCHANGED notForm

\* a document is chosen (or the choice emptied) in one of the two file inputs
FormSelectFileCall(f, chosen) ==
    /\ formOpen
    /\ formFiles' = IF chosen THEN formFiles \cup {f} ELSE formFiles \ {f}
    /\ formFiles' # formFiles
    /\ UNCHANGED <<formOpen, formLoading, formError, formSuccess, formPc,
                   formTimer, formLast>>

\* the same, as a step of the program
FormSelectFile(f, chosen) == FormSelectFileCall(f, chosen) /\ UNCHANGED notForm

\* e.message || 'An error occurred.'
FormReason(e) == IF e.message = "" THEN AnErrorOccurred ELSE e.message

\* handleRequest with no account check
handleRequestGuardNone(acct, files) == None

\* the early returns of handleRequest: the error it sets, or None to go on
handleRequestGuard(acct, files) ==
    IF acct = None THEN Some(FormConnectFirst)
    ELSE IF files # {"borrower", "collateral"} THEN Some(FormUploadBoth)
    ELSE None

\* handleRequest, from the Submit Request button (disabled while loading), up
\* to its first await
HandleRequestCall ==
    /\ formOpen /\ ~formLoading
    /\ LET stop == handleRequestGuard(walletAccount, formFiles)
       IN  IF stop # None
           THEN /\ formError' = stop
                /\ formLast' = Some([hadAccount |-> walletAccount # None, net |-> 0,
                                   outcome |-> "stopped"])
                /\ UNCHANGED <<formLoading, formSuccess, formPc>>
           ELSE /\ formLoading' = TRUE
                /\ formError' = None
                /\ formSuccess' = None
                /\ formPc' = "signing"
                /\ formLast' = Some([hadAccount |-> walletAccount # None, net |-> 1,
                                   outcome |-> "pending"])
    /\ UNCHANGED <<formOpen, formFiles, formTimer>>

\* the same, as a step of the program
HandleRequest == HandleRequestCall /\ UNCHANGED notForm

\* handleRequest with the amount typed into the form:
\* Math.floor(parseFloat(amount) * 1_000_000) goes into the arguments of
\* borrow_request
HandleRequestAmount ==
    /\ HandleRequestCall
    /\ payload' = IF handleRequestGuard(walletAccount, formFiles) # None THEN payload
                  ELSE Some([fn |-> "borrow_request",
                             amount |-> IF amount < 0
                                        THEN FloorTimesScale(TRUE, AmountNumber(-amount))
                                        ELSE FloorTimesScale(FALSE, AmountNumber(amount))])
    /\ UNCHANGED <<amount, atomic, display, walletVars, storeVars, txs, listVars,
                   offerVars>>

\* a state update of the form: nothing once it is unmounted
FormSet(new, old) == IF formOpen THEN new ELSE old

\* signAndSubmitTransaction resolved: waitForTransaction is called
FormSignResolves ==
    /\ formPc = "signing"
    /\ formPc' = "waiting"
    /\ formLast' = Some([formLast[1] EXCEPT !.net = @ + 1])
    /\ UNCHANGED <<formOpen, formFiles, formLoading, formError, formSuccess,
                   formTimer, notForm>>

\* waitForTransaction resolved: success is shown and the close timer set
FormWaitResolves ==
    /\ formPc = "waiting"
    /\ formPc' = "idle"
    /\ \E h \in Hashes : formSuccess' = FormSet(Some(h), formSuccess)
    /\ formTimer' = TRUE
    /\ formLoading' = FormSet(FALSE, formLoading)
    /\ formLast' = Some([formLast[1] EXCEPT !.outcome = "confirmed"])
    /\ UNCHANGED <<formOpen, formFiles, formError, notForm>>

\* signAndSubmitTransaction or waitForTransaction rejected (a wait also by
\* timing out): the catch sets the error, the finally clears loading
FormRejects ==
    /\ formPc \in {"signing", "waiting"}
    /\ formPc' = "idle"
    /\ \E e \in Thrown \cup (IF formPc = "waiting" THEN {WaitTimeout} ELSE {}) :
            formError' = FormSet(Some(FormReason(e)), formError)
    /\ formLoading' = FormSet(FALSE, formLoading)
    /\ formLast' = Some([formLast[1] EXCEPT !.outcome = "failed"])
    /\ UNCHANGED <<formOpen, formFiles, formSuccess, formTimer, notForm>>

\* the timer set on success fires: the inputs are reset and onClose() unmounts
FormTimerFires ==
    /\ formTimer
    /\ formTimer' = FALSE
    /\ formFiles' = FormSet({}, formFiles)
    /\ formOpen' = FALSE
    /\ UNCHANGED <<formLoading, formError, formSuccess, formPc, formLast, notForm>>

NextSubmit ==
    \/ \E fn \in HookActions : HookAction(fn)
    \/ \E a \in Addresses : DirectSubmit("create_offer", a)
    \/ \E i \in 1..MaxTx : BuildResolves(i)
    \/ \E i \in 1..MaxTx : SignResolves(i)
    \/ \E i \in 1..MaxTx : SignThrows(i)
    \/ \E i \in 1..MaxTx : SubmitResolves(i)
    \/ \E i \in 1..MaxTx : WaitResolves(i)
    \/ \E i \in 1..MaxTx : WaitTimesOut(i)
    \/ \E i \in 1..MaxTx : StageRejects(i)
    \/ WalletEvent

\* the actions as the user invokes them under every state of the wallet: the
\* hook's up to their first await, the form's through its awaits
NextInvoke ==
    \/ \E fn \in HookActions : HookAction(fn)
    \/ WalletEvent
    \/ FormOpen
    \/ FormClose
    \/ \E f \in {"borrower", "collateral"}, chosen \in BOOLEAN : FormSelectFile(f, chosen)
    \/ HandleRequest
    \/ FormSignResolves
    \/ FormWaitResolves
    \/ FormRejects
    \/ FormTimerFires

(***************************************************************************)
(* LoanOffersList: the offers of the active lenders.                       *)
(***************************************************************************)
OffersFailed == "Failed to fetch loan offers. Is the module deployed and initialized?"

\* active_lenders of the registry, in the order the registry keeps them
AddressOrder == <<"0xA", "0xB">>
ActiveLenders(book) == SelectSeq(AddressOrder, LAMBDA a : a \in book)

\* the LoanOffer resource of a lender, as getAccountResource returns its data
OfferOf(a) == [offer_id |-> IF a = AddressOrder[1] THEN 0 ELSE 1, lender |-> a]

InitOffers ==
    /\ offerBook = {}
    /\ offersMounted = FALSE
    /\ offers = <<>>
    /\ offersLoading = TRUE
    /\ offersError = None
    /\ offerFetches = <<>>

\* fetchOffers up to its first await: the read of LenderRegistry
FetchOffers ==
    /\ offersLoading' = TRUE
    /\ offersError' = None
    /\ offerFetches' = Append(offerFetches, [pc |-> "registry", lenders |-> <<>>, got |-> {}])

\* the component mounts and its effect calls fetchOffers
OffersMount ==
    /\ ~offersMounted
    /\ offersMounted' = TRUE
    /\ FetchOffers
    /\ UNCHANGED <<offerBook, offers, listEvents, notOffers>>

\* the effect runs again on the mounted component
OffersEffectAgain ==
    /\ offersMounted
    /\ listEvents < MaxEvents
    /\ listEvents' = listEvents + 1
    /\ FetchOffers
    /\ UNCHANGED <<offerBook, offersMounted, offers, notOffers>>

\* a lender creates an offer, or cancels the one they have
OfferBookChange(a) ==
    /\ listEvents < MaxEvents
    /\ listEvents' = listEvents + 1
    /\ offerBook' = IF a \in offerBook THEN offerBook \ {a} ELSE offerBook \cup {a}
    /\ UNCHANGED <<offersMounted, offers, offersLoading, offersError, offerFetches, notOffers>>

\* the read of LenderRegistry resolved: one read per active lender is issued
RegistryResolves(k) ==
    /\ k \in 1..Len(offerFetches) /\ offerFetches[k].pc = "registry"
    /\ offerFetches' = [offerFetches EXCEPT ![k].pc = "offers",
                                            ![k].lenders = ActiveLenders(offerBook)]
    /\ UNCHANGED <<offerBook, offersMounted, offers, offersLoading, offersError, listEvents,
                   notOffers>>

\* the read of the LoanOffer resource of lender a resolved
OfferReadResolves(k, a) ==
    /\ k \in 1..Len(offerFetches) /\ offerFetches[k].pc = "offers"
    /\ a \in Range(offerFetches[k].lenders) \ offerFetches[k].got
    /\ a \in offerBook
    /\ offerFetches' = [offerFetches EXCEPT ![k].got = @ \cup {a}]
    /\ UNCHANGED <<offerBook, offersMounted, offers, offersLoading, offersError, listEvents,
                   notOffers>>

\* one resolved read is enough
AllResolvedOrOne(f) == f.got # {} \/ f.lenders = <<>>

\* Promise.all resolves: every read it was given has resolved
AllResolved(f) == f.got = Range(f.lenders)

\* Promise.all of the offer reads resolved: the list is set to the data of
\* the resources, in the order of the lenders, and the finally clears loading
FetchOffersResolves(k) ==
    /\ k \in 1..Len(offerFetches) /\ offerFetches[k].pc = "offers"
    /\ AllResolved(offerFetches[k])
    /\ offers' = LET got == SelectSeq(offerFetches[k].lenders,
                                      LAMBDA a : a \in offerFetches[k].got)
                 IN  [i \in 1..Len(got) |-> OfferOf(got[i])]
    /\ offersLoading' = FALSE
    /\ offerFetches' = Remove(offerFetches, k)
    /\ UNCHANGED <<offerBook, offersMounted, offersError, listEvents, notOffers>>

\* the read of LenderRegistry or one of the offer reads rejected: the catch
\* sets the error, the finally clears loading
FetchOffersRejects(k) ==
    /\ k \in 1..Len(offerFetches)
    /\ offersError' = Some(OffersFailed)
    /\ offersLoading' = FALSE
    /\ offerFetches' = Remove(offerFetches, k)
    /\ UNCHANGED <<offerBook, offersMounted, offers, listEvents, notOffers>>

\* the refreshes of the two lists of the page
NextRefresh ==
    \/ ListMount
    \/ \E k \in 1..MaxInFlight : FetchConfigResolves(k)
    \/ \E k \in 1..MaxInFlight : FetchResolves(k)
    \/ \E k \in 1..MaxInFlight : FetchRejects(k)
    \/ ListWalletEvent
    \/ OffersMount
    \/ OffersEffectAgain
    \/ \E a \in Addresses : OfferBookChange(a)
    \/ \E k \in 1..MaxInFlight : RegistryResolves(k)
    \/ \E k \in 1..MaxInFlight, a \in Addresses : OfferReadResolves(k, a)
    \/ \E k \in 1..MaxInFlight : FetchOffersResolves(k)
    \/ \E k \in 1..MaxInFlight : FetchOffersRejects(k)

\* a page that shows the requests list and the request form of an offer: the
\* user's actions on the form count as events of the page
CountedEvent == listEvents < MaxEvents /\ listEvents' = listEvents + 1

pageRest == <<codecVars, walletVars, storeVars, txs, listState, offerVars>>

PageFormOpen == CountedEvent /\ FormOpenCall /\ UNCHANGED pageRest

PageFormClose == CountedEvent /\ FormCloseCall /\ UNCHANGED pageRest

PageFormSelectFile(f, chosen) ==
    CountedEvent /\ FormSelectFileCall(f, chosen) /\ UNCHANGED pageRest

PageHandleRequest == CountedEvent /\ HandleRequestCall /\ UNCHANGED pageRest

NextPage ==
    \/ ListMount
    \/ \E k \in 1..MaxInFlight : FetchConfigResolves(k)
    \/ \E k \in 1..MaxInFlight : FetchResolves(k)
    \/ \E k \in 1..MaxInFlight : FetchRejects(k)
    \/ \E r \in ReqIds, chosen \in BOOLEAN : SelectApprovalFile(r, chosen)
    \/ \E r \in ReqIds : HandleApprove(r)
    \/ \E r \in ReqIds : HandleReject(r)
    \/ \E k \in 1..MaxInFlight : ActSignResolves(k)
    \/ \E k \in 1..MaxInFlight : TxCommits(k)
    \/ \E k \in 1..MaxInFlight : ActWaitResolves(k)
    \/ \E k \in 1..MaxInFlight : ActRejects(k)
    \/ ListWalletEvent
    \/ PageFormOpen
    \/ PageFormClose
    \/ \E f \in {"borrower", "collateral"}, chosen \in BOOLEAN : PageFormSelectFile(f, chosen)
    \/ PageHandleRequest
    \/ FormSignResolves
    \/ FormWaitResolves
    \/ FormRejects
    \/ FormTimerFires

\* the actions that carry an amount, under every state of the wallet
NextAmount ==
    \/ \E fn \in AmountActions : AmountAction(fn)
    \/ WalletEvent
    \/ FormOpen
    \/ \E f \in {"borrower", "collateral"}, chosen \in BOOLEAN : FormSelectFile(f, chosen)
    \/ HandleRequestAmount
    \/ FormRejects

vars == <<codecVars, walletVars, storeVars, txs, formVars, listVars, offerVars>>

\* the codec at rest, for the specifications of the other components
IdleCodec == amount = 0 /\ atomic = None /\ display = None /\ payload = None

InitCodecSpec ==
    InitCodec /\ InitWallet /\ InitStore /\ InitSubmit /\ InitForm /\ InitList /\ InitOffers

SpecCodec == InitCodecSpec /\ [][NextCodec]_vars

InitWalletSpec ==
    IdleCodec /\ InitWallet /\ InitStore /\ InitSubmit /\ InitForm /\ InitList /\ InitOffers

SpecWallet == InitWalletSpec /\ [][NextWallet]_vars

InitSubmitSpec ==
    IdleCodec /\ InitWallet /\ InitStore /\ InitSubmit /\ InitForm /\ InitList /\ InitOffers

SpecSubmit == InitSubmitSpec /\ [][NextSubmit]_vars

InitInvokeSpec ==
    IdleCodec /\ InitWallet /\ InitStore /\ InitSubmit /\ InitForm /\ InitList /\ InitOffers

SpecInvoke == InitInvokeSpec /\ [][NextInvoke]_vars

InitAmountSpec ==
    /\ amount \in (-MaxSigned)..MaxSigned
    /\ atomic = None /\ display = None /\ payload = None
    /\ InitWallet /\ InitStore /\ InitSubmit /\ InitForm /\ InitList /\ InitOffers

SpecAmount == InitAmountSpec /\ [][NextAmount]_vars

InitStoreSpec ==
    /\ IdleCodec /\ InitWallet /\ InitSubmit /\ InitForm /\ InitList /\ InitOffers
    /\ cached \in {None} \cup {Some(t) : t \in TextsUpTo(MaxText)}
    /\ storage = cached
    /\ providerPc = "unmounted"
    /\ mountError = None

SpecStore == InitStoreSpec /\ [][NextStore]_vars

\* a read the ledger client was asked for is answered: it resolves or rejects
LedgerAnswers ==
    \E k \in 1..MaxInFlight :
       FetchConfigResolves(k) \/ FetchResolves(k) \/ FetchRejects(k)

\* the page with the form closed, or open with documents chosen
InitPageSpec ==
    /\ IdleCodec /\ InitWallet /\ InitStore /\ InitSubmit /\ InitList /\ InitOffers
    /\ formOpen \in BOOLEAN
    /\ formFiles \in IF formOpen THEN SUBSET {"borrower", "collateral"} ELSE {{}}
    /\ formLoading = FALSE
    /\ formError = None
    /\ formSuccess = None
    /\ formPc = "idle"
    /\ formTimer = FALSE
    /\ formLast = None

SpecPage == InitPageSpec /\ [][NextPage]_vars

InitListSpec ==
    IdleCodec /\ InitWallet /\ InitStore /\ InitSubmit /\ InitForm /\ InitList /\ InitOffers

\* the two lists, with every lender's offer already in the registry or none
InitRefreshSpec ==
    /\ IdleCodec /\ InitWallet /\ InitStore /\ InitSubmit /\ InitForm /\ InitList
    /\ offerBook \in {{}, Addresses}
    /\ offersMounted = FALSE
    /\ offers = <<>>
    /\ offersLoading = TRUE
    /\ offersError = None
    /\ offerFetches = <<>>

SpecRefresh == InitRefreshSpec /\ [][NextRefresh]_vars

\* the requests list under every state of the wallet
SpecList == InitListSpec /\ [][NextList]_vars

\* the requests list when every read of the ledger is answered in the end;
\* the user and the wallet act or not as they please
SpecListLive == InitListSpec /\ [][NextList]_vars /\ WF_vars(LedgerAnswers)

(***************************************************************************)
(* Claims about the pending-requests list.                                 *)
(***************************************************************************)
\* the step issues the first ledger read of a refresh that an approve or
\* reject call started
StartsRefresh ==
    /\ Len(fetches') = Len(fetches) + 1
    /\ fetches'[Len(fetches')].origin = "action"

\* C3: within an approve or reject action, the refresh (fetchRequests) starts
\* only in the step in which the action's waitForTransaction is observed to
\* have resolved for a transaction the ledger committed; no read of a refresh
\* is issued while the sign-and-submit or the wait of the action is pending,
\* and none when the action fails.
C3_RefreshAfterConfirm ==
    [][StartsRefresh =>
          \E k \in 1..Len(acts) :
             /\ acts[k].pc = "committed"
             /\ ledger[acts[k].rid] # StatusPending
             /\ acts' = Remove(acts, k)
             /\ actionStatus'[acts[k].rid] = Some([loading |-> FALSE, error |-> None])
             /\ fetches'[Len(fetches')].account = acts[k].account[1]]_vars

\* a refresh started by a confirmed action has its reads in flight
C3_RefreshInFlight ==
    /\ \E k \in 1..Len(fetches) : fetches[k].origin = "action"
    /\ lastSettled # None /\ ~lastSettled[1].failed
    /\ ledger[lastSettled[1].rid] # StatusPending

\* C4: when one of several approve / reject calls in flight settles, by
\* failure or by confirmation, the action status of every other request id is
\* what it was: the other's in-flight or failed status is neither set to
\* failed, nor cleared, nor overwritten.
C4_Independent ==
    [][\A k \in 1..Len(acts) :
          acts' = Remove(acts, k) =>
             \A q \in ReqIds \ {acts[k].rid} : actionStatus'[q] = actionStatus[q]]_vars

\* one call failed while another, on a distinct id, was in flight, and that
\* one still is and shows as loading beside the failed status
C4_FailedBesideInFlight ==
    /\ lastSettled # None /\ lastSettled[1].failed
    /\ actionStatus[lastSettled[1].rid] # None
    /\ ~actionStatus[lastSettled[1].rid][1].loading
    /\ actionStatus[lastSettled[1].rid][1].error # None
    /\ \E k \in 1..Len(acts) :
          /\ acts[k].rid \in lastSettled[1].others \ {lastSettled[1].rid}
          /\ actionStatus[acts[k].rid] = Some([loading |-> TRUE, error |-> None])

\* s is the pending view of the table for the address: every entry is the
\* table's item of a request of that lender with status pending, every such
\* request has an entry, and the ids ascend
IsPendingViewOf(s, addr) ==
    /\ \A i \in 1..Len(s) :
          /\ s[i].request_id \in ReqIds
          /\ s[i] = TableItem(s[i].request_id)
          /\ s[i].lender = addr
          /\ s[i].status = StatusPending
    /\ \A r \in ReqIds :
          (LenderOf(r) = addr /\ ledger[r] = StatusPending) =>
             \E i \in 1..Len(s) : s[i].request_id = r
    /\ \A i, j \in 1..Len(s) : i < j => s[i].request_id < s[j].request_id

\* C9: when a fetchRequests call ends successfully, the displayed list is
\* exactly the fetched requests whose lender is the address of the identity
\* the call was made for and whose status is pending (0), in ascending id
\* order.
C9_PendingView ==
    [][\A k \in 1..Len(fetches) :
          (fetches' = Remove(fetches, k) /\ fetchOk' = Some(TRUE)) =>
             IsPendingViewOf(requests', fetches[k].account)]_vars

\* a successful fetch left two rows of the lender on display, a request of
\* the other lender between them left out
C9_TwoRowsShown ==
    /\ fetchOk = Some(TRUE) /\ fetches = <<>> /\ ~listLoading
    /\ Len(requests) = 2
    /\ requests[1].request_id + 1 < requests[2].request_id

\* C17: the list leaves its loading state: whenever the component is mounted,
\* loading is false at some later time, also when no identity is connected
\* at mount time.
C17_LoadingEnds == listMounted ~> ~listLoading

\* a fetchRequests call that reached the ledger leaves the loading state
LoadingEndsAfterFetch == (fetches # <<>>) ~> ~listLoading

\* the fetchRequests call started last is no longer in flight
NewestSettled == \A j \in 1..Len(fetches) : fetches[j].seq # fetchSeq

\* C18: once the fetchRequests call started last has settled and no call has
\* failed since, the displayed list is not replaced by the result of a call
\* started earlier: a step that changes the list completes the call started
\* last, or is taken while that call is still in flight.
C18_NewestRefreshWins ==
    [][(requests' # requests /\ listError = None) =>
          \E k \in 1..Len(fetches) :
             /\ fetches' = Remove(fetches, k)
             /\ (fetches[k].seq = fetchSeq \/ ~NewestSettled)]_vars

(***************************************************************************)
(* Claims about the actions of the page: approve, reject, loan request.    *)
(***************************************************************************)
\* an approve / reject call on request r is in flight
InFlight(r) == \E k \in 1..Len(acts) : acts[k].rid = r

\* the failed state of a per-request action status: not loading, with a
\* reason
FailedStatus(st) ==
    /\ st # None
    /\ ~st[1].loading
    /\ st[1].error # None /\ st[1].error[1] # ""

\* C15 for approve and reject: a status shows loading only while its call is
\* in flight, and once the call that settled last on a request failed, and
\* none is in flight on it, the status is the failed one and the buttons of
\* the request are enabled.
RetryableList ==
    /\ \A r \in ReqIds :
          (actionStatus[r] # None /\ actionStatus[r][1].loading) => InFlight(r)
    /\ (lastSettled # None /\ lastSettled[1].failed /\ ~InFlight(lastSettled[1].rid)) =>
          /\ FailedStatus(actionStatus[lastSettled[1].rid])
          /\ ButtonsEnabled(lastSettled[1].rid)

\* C15 for the loan request of the form on screen: it shows loading only
\* while handleRequest is in flight, and once the last request failed it
\* shows a reason and the Submit button is enabled.
RetryableForm ==
    formOpen =>
       /\ formLoading => formPc # "idle"
       /\ (formLast # None /\ formLast[1].outcome = "failed") =>
             /\ formPc = "idle"
             /\ ~formLoading
             /\ formError # None /\ formError[1] # ""

\* C15: after a failed approve, reject or loan-request action the UI is in a
\* failed per-action state that can be retried (loading false, a reason set,
\* the action's button enabled), and no action shows as in flight once its
\* wallet and ledger calls have settled.
C15_FailedIsRetryable == RetryableList /\ RetryableForm

\* an approve or reject failed, and so did a loan request of the form; both
\* show their reason and neither is loading
C15_BothFailed ==
    /\ lastSettled # None /\ lastSettled[1].failed /\ ~InFlight(lastSettled[1].rid)
    /\ FailedStatus(actionStatus[lastSettled[1].rid])
    /\ formOpen /\ formLast # None /\ formLast[1].outcome = "failed"
    /\ ~formLoading /\ formError # None

(***************************************************************************)
(* Claims about the amounts of the transaction actions.                    *)
(***************************************************************************)
\* C11: no transaction action builds a payload that carries a negative
\* atomic amount: for a negative amount the conversion fails or the amount is
\* rejected before the payload is built.
C11_NoNegativePayload == payload # None => payload[1].amount >= 0

(***************************************************************************)
(* Claims about the codec.                                                 *)
(***************************************************************************)
\* C10: for every non-negative decimal amount a with at most 6 fractional
\* digits, formatUsdc(parseUsdc(a)) = a.
C10_RoundTrip == display # None => display[1] = AmountNumber(amount)

(***************************************************************************)
(* Claims about submitTransaction and the transaction actions.             *)
(***************************************************************************)
AllStages == {"build", "sign", "submit", "wait"}

\* C2: submitTransaction never rejects to its caller: a failure at any stage
\* resolves to success = false with a non-empty reason, and success = true
\* with the transaction hash is returned only when all four stages succeeded.
C2_UniformOutcome ==
    \A i \in 1..Len(txs) :
        LET tx == txs[i]
        IN  tx.stage # "none" =>
              /\ tx.promise # "rejected"
              /\ tx.thrown # None =>
                    /\ tx.promise = "resolved"
                    /\ tx.result # None
                    /\ ~tx.result[1].success
                    /\ tx.result[1].error # ""
              /\ (tx.result # None /\ tx.result[1].success) =>
                    /\ tx.ok = AllStages
                    /\ tx.thrown = None
                    /\ tx.hash # None
                    /\ tx.result[1].hash = tx.hash[1]

\* a call rejected with an error that has no message, and another invocation
\* went through all four stages
C2_FailedAndConfirmed ==
    \E i, j \in 1..Len(txs) :
        /\ txs[i].thrown = Some([message |-> ""])
        /\ txs[i].result = Some([success |-> FALSE, error |-> TransactionFailed])
        /\ txs[j].result # None /\ txs[j].result[1].success

\* C5: a confirmation wait that exceeds its timeout resolves the submission
\* to an "unknown" outcome, distinct from the confirmed and the failed one.
C5_TimeoutIsUnknown ==
    \A i \in 1..Len(txs) :
        (txs[i].thrown = Some(WaitTimeout) /\ txs[i].result # None)
            => Outcome(txs[i].result[1]) \notin {"confirmed", "failed"}

\* C6: a transaction action of the hook, or the form's submit, invoked while
\* no identity is connected fails with the identity error before any network
\* call is made.
C6_IdentityFirst ==
    /\ \A i \in 1..Len(txs) :
          ~txs[i].hadIdentity =>
              /\ txs[i].promise = "rejected"
              /\ txs[i].error = Some(ConnectFirst)
              /\ txs[i].stage = "none"
              /\ txs[i].net = NoCalls
    /\ (formLast # None /\ ~formLast[1].hadAccount) =>
          /\ formLast[1].net = 0
          /\ formPc = "idle"
          /\ formError = Some(FormConnectFirst)

\* a hook action and the form's submit were both invoked with no identity
C6_InvokedDisconnected ==
    /\ \E i \in 1..Len(txs) : ~txs[i].hadIdentity /\ txs[i].promise = "rejected"
    /\ formLast # None /\ ~formLast[1].hadAccount
    /\ formFiles = {"borrower", "collateral"}

\* C7: one invocation makes at most one submission to the ledger, also after
\* a failure.
C7_NoRetry ==
    \A i \in 1..Len(txs) :
        /\ txs[i].net.build <= 1
        /\ txs[i].net.sign <= 1
        /\ txs[i].net.submit <= 1
        /\ txs[i].net.wait <= 1

\* an invocation whose one submission was rejected, and which has ended
C7_SubmitFailedOnce ==
    \E i \in 1..Len(txs) :
        /\ txs[i].stage = "failed"
        /\ txs[i].ok = {"build", "sign"}
        /\ txs[i].net.submit = 1

\* the steps of a submission: built, signed, submitted, then confirmed or failed
StageEdges ==
    {<<"start", "built">>, <<"built", "signed">>, <<"signed", "submitted">>,
     <<"submitted", "confirmed">>, <<"start", "failed">>, <<"built", "failed">>,
     <<"signed", "failed">>, <<"submitted", "failed">>}

\* a step of one submission keeps the order of the stages
StageStep(old, new) ==
    /\ new.stage = old.stage \/ <<old.stage, new.stage>> \in StageEdges
    /\ old.stage \in {"confirmed", "failed"} => new = old
    /\ new.net.sign > old.net.sign => "build" \in new.ok
    /\ new.net.submit > old.net.submit => "sign" \in new.ok
    /\ new.net.wait > old.net.wait => ("submit" \in new.ok /\ new.hash # None)

\* C8: a submission passes through its stages only in the order built,
\* signed, submitted, then confirmed or failed: no stage starts before the
\* one before it completed, and a confirmed or failed submission takes no
\* further step.
C8_StageOrder ==
    [][ /\ Len(txs') >= Len(txs)
        /\ \A i \in 1..Len(txs) : StageStep(txs[i], txs'[i])
        /\ \A i \in (Len(txs) + 1)..Len(txs') :
              /\ txs'[i].stage \in {"none", "start", "failed"}
              /\ txs'[i].net.sign = 0
              /\ txs'[i].net.submit = 0
              /\ txs'[i].net.wait = 0
      ]_vars

\* a submission that went through every stage to confirmed
C8_Confirmed ==
    \E i \in 1..Len(txs) : txs[i].stage = "confirmed" /\ txs[i].ok = AllStages

\* C12: a transaction action run with the provider's stub account never
\* passes the sign stage: no signature of it exists, no submit call is made
\* for it, it never reaches a success outcome, and a result it gets is a
\* failure with a non-empty reason.
C12_StubNeverSigns ==
    \A i \in 1..Len(txs) :
       (txs[i].sender # None /\ txs[i].sender[1].kind = "stub") =>
          /\ "sign" \notin txs[i].ok
          /\ txs[i].net.submit = 0
          /\ txs[i].stage \notin {"signed", "submitted", "confirmed"}
          /\ txs[i].result # None =>
                (~txs[i].result[1].success /\ txs[i].result[1].error # "")

\* an action was run with the stub, sign was called and threw, and the
\* caller got the failure
C12_StubSignFailed ==
    \E i \in 1..Len(txs) :
       /\ txs[i].sender # None /\ txs[i].sender[1].kind = "stub"
       /\ txs[i].net.sign = 1
       /\ txs[i].thrown = Some(StubCannotSign)
       /\ txs[i].result = Some([success |-> FALSE, error |-> StubCannotSign.message])

(***************************************************************************)
(* Claims about the wallet provider.                                       *)
(***************************************************************************)


\* a status of a request id that asks for the approval letter
AsksForLetter(st) == st = Some([loading |-> FALSE, error |-> Some(UploadApproval)])

\* what a press of Approve on request id r leaves alone when it submits
\* nothing: the calls in flight, the statuses of the other request ids and
\* the displayed list
ApproveSubmitsNothing(r) ==
    /\ acts' = acts
    /\ \A q \in ReqIds \ {r} : actionStatus'[q] = actionStatus[q]
    /\ requests' = requests

\* a press of Submit Request while a document is missing starts no loan
\* request: nothing is in flight for the form afterwards, loading is not set
\* and an error is shown
FormSubmitsNothing ==
    (HandleRequestCall /\ formFiles # {"borrower", "collateral"}) =>
        /\ formPc' = "idle" /\ formLoading' = FALSE
        /\ formError' # None
        /\ formLast' # None /\ formLast'[1].net = 0

\* C20 as stated: a press of Approve on a request id with no approval file
\* selected submits nothing, sets the status of that id to failed with the
\* message asking for an approval letter and loading false, and leaves the
\* other statuses and the displayed list unchanged; the form submits nothing
\* when a document is missing.
C20_NoFileSubmitsNothing ==
    [][/\ \A r \in ReqIds :
             (HandleApprove(r) /\ r \notin approvalFiles) =>
                 /\ ApproveSubmitsNothing(r)
                 /\ AsksForLetter(actionStatus'[r])
       /\ FormSubmitsNothing]_vars

\* C20 as amended: the status is set when an identity is connected; with no
\* identity connected the press changes no status at all.
C20_NoFileSubmitsNothingConnected ==
    [][/\ \A r \in ReqIds :
             (HandleApprove(r) /\ r \notin approvalFiles) =>
                 /\ ApproveSubmitsNothing(r)
                 /\ IF walletAccount # None
                    THEN AsksForLetter(actionStatus'[r])
                    ELSE actionStatus'[r] = actionStatus[r]
       /\ FormSubmitsNothing]_vars

\* a request id asks for its approval letter while another has a call in
\* flight, and the form was stopped for a missing document
C20_BothStopped ==
    /\ \E r \in ReqIds : AsksForLetter(actionStatus[r]) /\ ~InFlight(r)
    /\ acts # <<>>
    /\ formError = Some(FormUploadBoth)
    /\ formLast # None /\ formLast[1].outcome = "stopped"


\* C21: a refresh of either list is all-or-nothing. When a fetchRequests or
\* fetchOffers call ends by a rejected read, the error message is set,
\* loading is false and the displayed list is as it was; and the displayed
\* list changes only in the step that completes a call all of whose reads
\* have resolved.
C21_RefreshAllOrNothing ==
    [][/\ \A k \in 1..MaxInFlight :
             FetchRejects(k) =>
                 /\ listError' = Some(FetchFailed) /\ ~listLoading'
                 /\ requests' = requests
       /\ \A k \in 1..MaxInFlight :
             FetchOffersRejects(k) =>
                 /\ offersError' = Some(OffersFailed) /\ ~offersLoading'
                 /\ offers' = offers
       /\ requests' # requests =>
             \E k \in 1..Len(fetches) :
                /\ fetches[k].pc = "items"
                /\ fetches' = Remove(fetches, k) /\ fetchOk' = Some(TRUE)
       /\ offers' # offers =>
             \E k \in 1..Len(offerFetches) :
                /\ offerFetches[k].pc = "offers"
                /\ offerFetches[k].got = Range(offerFetches[k].lenders)
                /\ offerFetches' = Remove(offerFetches, k)]_vars

\* both lists show the failure of a later refresh and nothing is in flight,
\* while each still holds the rows an earlier refresh fetched
C21_BothFailedOverRows ==
    /\ listError = Some(FetchFailed) /\ ~listLoading /\ requests # <<>>
    /\ offersError = Some(OffersFailed) /\ ~offersLoading /\ offers # <<>>
    /\ fetches = <<>> /\ offerFetches = <<>>

C16_SessionMatchesAdapter ==
    calls = <<>> =>
       /\ accountObj # None <=> (connected /\ walletAccount # None)
       /\ accountObj # None => accountObj[1] = walletAccount[1]

\* calls were made and have settled, the last one resolved, and an identity
\* is exposed
C16_SettledConnected ==
    /\ calls = <<>> /\ callOutcome = Some("resolved")
    /\ connected /\ accountObj # None

\* C14: no consumed asynchronous operation rejects its promise or throws to
\* its caller: here, no connect() or disconnect() call of the provider ends
\* rejected.
C14_NoRejectionToCaller == callOutcome # Some("rejected")

\* C13: once the provider has mounted, nothing has escaped its effect, a
\* cached wallet state that fails to parse has been removed from local
\* storage, and a cached state that parses, or an absent one, is in local
\* storage as it was.
C13_CorruptCacheDiscarded ==
    providerPc = "mounted" =>
       /\ mountError = None
       /\ (cached # None /\ ~JsonParses(cached[1])) => storage = None
       /\ (cached = None \/ (cached # None /\ JsonParses(cached[1]))) => storage = cached

\* C1: while a connect() or disconnect() call is in flight, a further call
\* forwards no second connectWallet / disconnectWallet call to the adapter:
\* at most one adapter call is pending at any time.
C1_ReentrancyGuard == Len(calls) <= 1

====
